---- MODULE Spec2Model ----
(***************************************************************************)
(* Model of speed-editor-to-mackie.py: class MackieHandler, the bridge     *)
(* from a Speed Editor (keys, jog wheel, LEDs) to a Mackie Control (MCU)    *)
(* peer over MIDI.                                                          *)
(*                                                                          *)
(* The fields of the MackieHandler object are the variables.  Every method  *)
(* is an operator from an object record to an object record, translated    *)
(* statement by statement; the actions apply a whole handler to the current *)
(* object (serialized specifications) or one statement of it (the threaded *)
(* specification SpecConc).                                                 *)
(***************************************************************************)
EXTENDS Integers, Sequences, FiniteSets, TLC

VARIABLES
    \* fields of the MackieHandler instance
    zoom_timer_on, keys, leds, play_state, zoom_mode, scrub_mode,
    jog_unsent, jog_mode,
    \* class attribute MackieHandler.modifiers
    modifiers,
    \* collaborators: messages sent on midi_out by the running / last handler,
    \* the last mask given to se.set_leds, the last led given to se.set_jog_leds
    midi_out, se_leds, se_jog_leds,
    \* threading.Timer objects started and not yet fired
    timers,
    \* an exception left the handler (the poll loop of __main__ is over)
    crashed,
    \* history: the handler calls key() made, the argument jog() gave its encoder
    calls, steps,
    \* history kept by the environment: the last event delivered, a bit flipped
    \* by every event, the jog events so far and their totals
    ev, tick, njog, recv_units, sent_steps, sent_units,
    \* threads of SpecConc: the poll thread inside key(), the timer callbacks
    main, cbs,
    \* the keys field of a second MackieHandler instance of the same process
    other_keys

vars == << zoom_timer_on, keys, leds, play_state, zoom_mode, scrub_mode,
           jog_unsent, jog_mode, modifiers, midi_out, se_leds, se_jog_leds,
           timers, crashed, calls, steps, ev, tick, njog, recv_units,
           sent_steps, sent_units, main, cbs, other_keys >>

-----------------------------------------------------------------------------
(* Class constants                                                         *)

MCU_JOG_CC == 60
MCU_STOP == 93
MCU_PLAY == 94
MCU_REC == 95
MCU_UP == 96
MCU_DOWN == 97
MCU_LEFT == 98
MCU_RIGHT == 99
MCU_ZOOM == 100
MCU_SCRUB == 101
MCU_USER_A == 102
MCU_USER_B == 103
MCU_F1 == 54
MCU_F2 == 55
MCU_F3 == 56
MCU_F4 == 57
MCU_F5 == 58
MCU_F6 == 59
MCU_F7 == 60
MCU_F8 == 61

RAMP_THRESHOLD == 5
RAMP_FACTOR == 5

\* raw jog sub-units per native unit (value //= 360)
JOG_UNIT == 360
\* largest magnitude of one control change (if abs_val > 63: abs_val = 63)
CC_MAX == 63
\* position of the sign bit of a control change (int(shift < 0) << 6)
CC_SIGN_BIT == 6
\* velocity of every note sent
NOTE_VELOCITY == 127

\* keys of the JOG dictionary, each with its jog led
JOG == [SHTL |-> "SHTL", JOG |-> "JOG", SCRL |-> "SCRL"]

JOG_SPEED_DIV_FACTOR == [SHTL |-> 20, JOG |-> 15, SCRL |-> 1]

ZOOM_KEYS == <<"IN", "OUT", "TRIM_IN", "TRIM_OUT">>

MODIFIER_KEY_MAP == [ROLL |-> "NUDGE"]

\* led_set of receive_thread: CAM1 | ... | CAM9, the mask as the set of its bits
CAM_LEDS == {"CAM1", "CAM2", "CAM3", "CAM4", "CAM5", "CAM6", "CAM7", "CAM8", "CAM9"}

-----------------------------------------------------------------------------
(* Python's integer operators                                              *)

\* mutant: the quotient is truncated toward zero
FloorDiv_truncates(a, b) == IF a >= 0 THEN a \div b ELSE -((-a) \div b)

\* a // b for b > 0: rounds toward minus infinity
FloorDiv(a, b) == a \div b

Abs(x) == IF x < 0 THEN -x ELSE x

\* a | b on non-negative integers
RECURSIVE BitOr(_, _)
BitOr(a, b) ==
    IF a = 0 THEN b
    ELSE IF b = 0 THEN a
    ELSE (IF a % 2 = 1 \/ b % 2 = 1 THEN 1 ELSE 0) + 2 * BitOr(a \div 2, b \div 2)

\* a << n
ShiftLeft(a, n) == a * (2 ^ n)

\* the orders in which a for loop may visit a set
Orders(S) ==
    { s \in [1..Cardinality(S) -> S] : \A i, j \in 1..Cardinality(S) : s[i] = s[j] => i = j }

-----------------------------------------------------------------------------
(* The object                                                              *)

Self ==
    [ zoom_timer_on |-> zoom_timer_on, keys |-> keys, leds |-> leds,
      play_state |-> play_state, zoom_mode |-> zoom_mode, scrub_mode |-> scrub_mode,
      jog_unsent |-> jog_unsent, jog_mode |-> jog_mode, modifiers |-> modifiers,
      midi_out |-> midi_out, se_leds |-> se_leds, se_jog_leds |-> se_jog_leds,
      timers |-> timers, crashed |-> crashed, calls |-> calls, steps |-> steps ]

\* the object as a handler finds it: nothing sent or called yet by this handler
Entry == [Self EXCEPT !.midi_out = << >>, !.calls = << >>, !.steps = 0]

Store(w) ==
    /\ zoom_timer_on' = w.zoom_timer_on
    /\ keys' = w.keys
    /\ leds' = w.leds
    /\ play_state' = w.play_state
    /\ zoom_mode' = w.zoom_mode
    /\ scrub_mode' = w.scrub_mode
    /\ jog_unsent' = w.jog_unsent
    /\ jog_mode' = w.jog_mode
    /\ modifiers' = w.modifiers
    /\ midi_out' = w.midi_out
    /\ se_leds' = w.se_leds
    /\ se_jog_leds' = w.se_jog_leds
    /\ timers' = w.timers
    /\ crashed' = w.crashed
    /\ calls' = w.calls
    /\ steps' = w.steps

NoteOn(note) == [type |-> "note_on", note |-> note, velocity |-> NOTE_VELOCITY]

ControlChange(val) == [type |-> "control_change", control |-> MCU_JOG_CC, value |-> val]

-----------------------------------------------------------------------------
(* Methods                                                                 *)

send_midi_note(w, note) == [w EXCEPT !.midi_out = Append(@, NoteOn(note))]

\* mutant: a mode switch drops the remainder
set_jog_mode_for_key_drops_remainder(w, key) ==
    IF key \notin DOMAIN JOG THEN w
    ELSE [w EXCEPT !.jog_mode = key, !.se_jog_leds = JOG[key], !.jog_unsent = 0]

set_jog_mode_for_key(w, key) ==
    IF key \notin DOMAIN JOG THEN w
    ELSE [w EXCEPT !.jog_mode = key, !.se_jog_leds = JOG[key]]

modifier_pressed(w, k) ==
    IF k \in DOMAIN MODIFIER_KEY_MAP
    THEN [w EXCEPT !.modifiers = @ \cup {MODIFIER_KEY_MAP[k]}]
    ELSE w

\* mutant: a release leaves the modifier set alone
modifier_released_keeps(w, k) == w

\* set.remove raises KeyError when the element is absent
modifier_released(w, k) ==
    IF k \in DOMAIN MODIFIER_KEY_MAP
    THEN IF MODIFIER_KEY_MAP[k] \in w.modifiers
         THEN [w EXCEPT !.modifiers = @ \ {MODIFIER_KEY_MAP[k]}]
         ELSE [w EXCEPT !.crashed = TRUE]
    ELSE w

\* mutant: the toggle is sent whatever zoom_mode is
set_zoom_mode_always(w) == send_midi_note(w, MCU_ZOOM)

set_zoom_mode(w) == IF ~w.zoom_mode THEN send_midi_note(w, MCU_ZOOM) ELSE w

\* mutant: a timer is started whether or not one is outstanding
set_zoom_timer_unguarded(w) == [w EXCEPT !.zoom_timer_on = TRUE, !.timers = @ + 1]

set_zoom_timer(w) ==
    IF ~w.zoom_timer_on
    THEN [w EXCEPT !.zoom_timer_on = TRUE, !.timers = @ + 1]
    ELSE w

\* mutant: IN and OUT send each other's direction
zoom_handle_keys_swaps_in_out(w) ==
    LET zoom_pressed == \E i \in DOMAIN ZOOM_KEYS : ZOOM_KEYS[i] \in w.keys
        w1 == IF zoom_pressed THEN set_zoom_mode(w) ELSE w
        w2 == IF "IN" \in w1.keys THEN send_midi_note(w1, MCU_LEFT) ELSE w1
        w3 == IF "OUT" \in w2.keys THEN send_midi_note(w2, MCU_RIGHT) ELSE w2
        w4 == IF "TRIM_IN" \in w3.keys THEN send_midi_note(w3, MCU_DOWN) ELSE w3
        w5 == IF "TRIM_OUT" \in w4.keys THEN send_midi_note(w4, MCU_UP) ELSE w4
    IN  IF zoom_pressed THEN set_zoom_timer(w5) ELSE w5

\* mutant: the timer is armed whether or not a zoom key is held
zoom_handle_keys_always_arms(w) ==
    LET zoom_pressed == \E i \in DOMAIN ZOOM_KEYS : ZOOM_KEYS[i] \in w.keys
        w1 == IF zoom_pressed THEN set_zoom_mode(w) ELSE w
        w2 == IF "IN" \in w1.keys THEN send_midi_note(w1, MCU_RIGHT) ELSE w1
        w3 == IF "OUT" \in w2.keys THEN send_midi_note(w2, MCU_LEFT) ELSE w2
        w4 == IF "TRIM_IN" \in w3.keys THEN send_midi_note(w3, MCU_DOWN) ELSE w3
        w5 == IF "TRIM_OUT" \in w4.keys THEN send_midi_note(w4, MCU_UP) ELSE w4
    IN  set_zoom_timer(w5)

zoom_handle_keys(w) ==
    LET zoom_pressed == \E i \in DOMAIN ZOOM_KEYS : ZOOM_KEYS[i] \in w.keys
        w1 == IF zoom_pressed THEN set_zoom_mode(w) ELSE w
        w2 == IF "IN" \in w1.keys THEN send_midi_note(w1, MCU_RIGHT) ELSE w1
        w3 == IF "OUT" \in w2.keys THEN send_midi_note(w2, MCU_LEFT) ELSE w2
        w4 == IF "TRIM_IN" \in w3.keys THEN send_midi_note(w3, MCU_DOWN) ELSE w3
        w5 == IF "TRIM_OUT" \in w4.keys THEN send_midi_note(w4, MCU_UP) ELSE w4
    IN  IF zoom_pressed THEN set_zoom_timer(w5) ELSE w5

\* mutant: the callback does not clear zoom_timer_on
zoom_repeat_keeps_flag(w) == zoom_handle_keys(w)

zoom_repeat(w) == zoom_handle_keys([w EXCEPT !.zoom_timer_on = FALSE])

key_released(w, k) == modifier_released([w EXCEPT !.calls = Append(@, <<"released", k>>)], k)

\* mutant: STOP_PLAY sends PLAY whatever play_state is
key_pressed_dispatch_always_play(w, k) ==
    LET w0 == [w EXCEPT !.calls = Append(@, <<"pressed", k>>)]
        w1 == set_jog_mode_for_key(w0, k)
        w2 == modifier_pressed(w1, k)
        w3 == IF k = "STOP_PLAY"
              THEN send_midi_note(w2, MCU_PLAY)
              ELSE w2
        w4 == IF k = "FULL_VIEW" THEN send_midi_note(w3, MCU_REC) ELSE w3
        w5 == IF k = "CUT" THEN send_midi_note(w4, MCU_F3) ELSE w4
        w6 == IF k = "SPLIT" THEN send_midi_note(w5, MCU_F4) ELSE w5
        w7 == IF k = "LIVE_OWR" THEN send_midi_note(w6, MCU_F5) ELSE w6
        w8 == IF k = "ESC" THEN send_midi_note(w7, MCU_F6) ELSE w7
        w9 == IF k = "TRANS" THEN send_midi_note(w8, MCU_F7) ELSE w8
        w10 == IF k = "RIPL_DEL" THEN send_midi_note(w9, MCU_F8) ELSE w9
    IN  w10

\* key_pressed up to the button dispatch (lines 169-193)
key_pressed_dispatch(w, k) ==
    LET w0 == [w EXCEPT !.calls = Append(@, <<"pressed", k>>)]
        w1 == set_jog_mode_for_key(w0, k)
        w2 == modifier_pressed(w1, k)
        w3 == IF k = "STOP_PLAY"
              THEN IF w2.play_state THEN send_midi_note(w2, MCU_STOP)
                   ELSE send_midi_note(w2, MCU_PLAY)
              ELSE w2
        w4 == IF k = "FULL_VIEW" THEN send_midi_note(w3, MCU_REC) ELSE w3
        w5 == IF k = "CUT" THEN send_midi_note(w4, MCU_F3) ELSE w4
        w6 == IF k = "SPLIT" THEN send_midi_note(w5, MCU_F4) ELSE w5
        w7 == IF k = "LIVE_OWR" THEN send_midi_note(w6, MCU_F5) ELSE w6
        w8 == IF k = "ESC" THEN send_midi_note(w7, MCU_F6) ELSE w7
        w9 == IF k = "TRANS" THEN send_midi_note(w8, MCU_F7) ELSE w8
        w10 == IF k = "RIPL_DEL" THEN send_midi_note(w9, MCU_F8) ELSE w9
    IN  w10

key_pressed(w, k) ==
    IF \E i \in DOMAIN ZOOM_KEYS : ZOOM_KEYS[i] = k
    THEN zoom_handle_keys(key_pressed_dispatch(w, k))
    ELSE key_pressed_dispatch(w, k)

\* released = self.keys - keys_set ; pressed = keys_set - self.keys
released(w, keys_set) == w.keys \ keys_set

\* mutant: every held key counts as pressed
pressed_all_held(w, keys_set) == keys_set

pressed(w, keys_set) == keys_set \ w.keys

\* for k in released: self.key_released(k), in the order rs; an exception ends it
RECURSIVE for_released(_, _)
for_released(w, rs) ==
    IF rs = << >> \/ w.crashed THEN w
    ELSE for_released(key_released(w, Head(rs)), Tail(rs))

RECURSIVE for_pressed(_, _)
for_pressed(w, ps) ==
    IF ps = << >> \/ w.crashed THEN w
    ELSE for_pressed(key_pressed(w, Head(ps)), Tail(ps))

\* key(keys), the two loops visiting their sets in the orders rs and ps
key(w, keys_set, rs, ps) ==
    for_pressed(for_released([w EXCEPT !.keys = keys_set], rs), ps)

\* while abs_val_full > 0: ... of send_midi_jog_cc
RECURSIVE jog_cc_loop(_, _, _)
jog_cc_loop(w, shift, abs_val_full) ==
    IF abs_val_full > 0
    THEN LET abs_val == IF abs_val_full > CC_MAX THEN CC_MAX ELSE abs_val_full
             sign == ShiftLeft(IF shift < 0 THEN 1 ELSE 0, CC_SIGN_BIT)
             val == BitOr(abs_val, sign)
         IN  jog_cc_loop([w EXCEPT !.midi_out = Append(@, ControlChange(val))],
                         shift, abs_val_full - abs_val)
    ELSE w

\* mutant: the sign of the shift is dropped
send_midi_jog_cc_unsigned(w, shift) == jog_cc_loop(w, Abs(shift), Abs(shift))

send_midi_jog_cc(w, shift) == jog_cc_loop(w, shift, Abs(shift))

\* mutant: above the threshold the whole magnitude is multiplied
send_midi_nudge_msgs_ramps_all(w, shift) ==
    LET abs_val0 == Abs(shift)
        abs_val == IF abs_val0 > RAMP_THRESHOLD
                   THEN abs_val0 * RAMP_FACTOR
                   ELSE abs_val0
        msg == IF "NUDGE" \in w.modifiers
               THEN IF shift < 0 THEN MCU_USER_A ELSE MCU_USER_B
               ELSE IF shift < 0 THEN MCU_F1 ELSE MCU_F2
    IN  [w EXCEPT !.midi_out = @ \o [i \in 1..abs_val |-> NoteOn(msg)]]

send_midi_nudge_msgs(w, shift) ==
    LET abs_val0 == Abs(shift)
        abs_val == IF abs_val0 > RAMP_THRESHOLD
                   THEN (abs_val0 - RAMP_THRESHOLD) * RAMP_FACTOR + RAMP_THRESHOLD
                   ELSE abs_val0
        msg == IF "NUDGE" \in w.modifiers
               THEN IF shift < 0 THEN MCU_USER_A ELSE MCU_USER_B
               ELSE IF shift < 0 THEN MCU_F1 ELSE MCU_F2
    IN  [w EXCEPT !.midi_out = @ \o [i \in 1..abs_val |-> NoteOn(msg)]]

\* mutant: a delta that sends nothing is not accumulated
jog_forgets_remainder(w, value) ==
    LET value1 == FloorDiv(value, JOG_UNIT)
        w1 == [w EXCEPT !.jog_unsent = @ + value1]
        speed_div_factor == JOG_SPEED_DIV_FACTOR[w1.jog_mode]
        value_to_send == FloorDiv(w1.jog_unsent, speed_div_factor)
        w2 == [w1 EXCEPT !.jog_unsent = @ - value_to_send * speed_div_factor,
                         !.steps = value_to_send]
    IN  IF value_to_send = 0 THEN w
        ELSE IF w2.jog_mode = "SHTL"
             THEN send_midi_nudge_msgs(w2, value_to_send)
             ELSE send_midi_jog_cc(w2, value_to_send)

\* mutant: the remainder is cleared when steps are sent
jog_clears_remainder(w, value) ==
    LET value1 == FloorDiv(value, JOG_UNIT)
        w1 == [w EXCEPT !.jog_unsent = @ + value1]
        speed_div_factor == JOG_SPEED_DIV_FACTOR[w1.jog_mode]
        value_to_send == FloorDiv(w1.jog_unsent, speed_div_factor)
        w2 == [w1 EXCEPT !.jog_unsent = 0, !.steps = value_to_send]
    IN  IF value_to_send = 0 THEN w1
        ELSE IF w2.jog_mode = "SHTL"
             THEN send_midi_nudge_msgs(w2, value_to_send)
             ELSE send_midi_jog_cc(w2, value_to_send)

\* mutant: what was sent is not taken off the remainder
jog_keeps_sent(w, value) ==
    LET value1 == FloorDiv(value, JOG_UNIT)
        w1 == [w EXCEPT !.jog_unsent = @ + value1]
        speed_div_factor == JOG_SPEED_DIV_FACTOR[w1.jog_mode]
        value_to_send == FloorDiv(w1.jog_unsent, speed_div_factor)
        w2 == [w1 EXCEPT !.steps = value_to_send]
    IN  IF value_to_send = 0 THEN w1
        ELSE IF w2.jog_mode = "SHTL"
             THEN send_midi_nudge_msgs(w2, value_to_send)
             ELSE send_midi_jog_cc(w2, value_to_send)

jog(w, value) ==
    LET value1 == FloorDiv(value, JOG_UNIT)
        w1 == [w EXCEPT !.jog_unsent = @ + value1]
        speed_div_factor == JOG_SPEED_DIV_FACTOR[w1.jog_mode]
        value_to_send == FloorDiv(w1.jog_unsent, speed_div_factor)
        w2 == [w1 EXCEPT !.jog_unsent = @ - value_to_send * speed_div_factor,
                         !.steps = value_to_send]
    IN  IF value_to_send = 0 THEN w1
        ELSE IF w2.jog_mode = "SHTL"
             THEN send_midi_nudge_msgs(w2, value_to_send)
             ELSE send_midi_jog_cc(w2, value_to_send)

\* mutant: the camera leds are set on play and never cleared
receive_thread_never_clears(w, msg) ==
    IF msg.type = "note_on"
    THEN LET w1 == IF msg.note = MCU_PLAY
                   THEN LET p == msg.velocity > 0
                            l == IF p THEN w.leds \cup CAM_LEDS ELSE w.leds
                        IN  [w EXCEPT !.play_state = p, !.leds = l, !.se_leds = l]
                   ELSE w
             w2 == IF msg.note = MCU_ZOOM
                   THEN [w1 EXCEPT !.zoom_mode = msg.velocity > 0]
                   ELSE w1
         IN  IF msg.note = MCU_SCRUB
             THEN [w2 EXCEPT !.scrub_mode = msg.velocity > 0]
             ELSE w2
    ELSE w

\* one pass of the loop of receive_thread, for the message msg
receive_thread(w, msg) ==
    IF msg.type = "note_on"
    THEN LET w1 == IF msg.note = MCU_PLAY
                   THEN LET p == msg.velocity > 0
                            l == IF p THEN (w.leds \ CAM_LEDS) \cup CAM_LEDS
                                 ELSE w.leds \ CAM_LEDS
                        IN  [w EXCEPT !.play_state = p, !.leds = l, !.se_leds = l]
                   ELSE w
             w2 == IF msg.note = MCU_ZOOM
                   THEN [w1 EXCEPT !.zoom_mode = msg.velocity > 0]
                   ELSE w1
         IN  IF msg.note = MCU_SCRUB
             THEN [w2 EXCEPT !.scrub_mode = msg.velocity > 0]
             ELSE w2
    ELSE w

-----------------------------------------------------------------------------
(* State after MackieHandler(se)                                           *)

MaxCallbacks == 2

\* jog events followed, with mode switches between them
MaxJogEvents == 2

\* jog events followed in one fixed mode
MaxFixedEvents == 3

\* timers started and not yet fired, in the threaded specification
MaxTimers == 2

\* a thread's position and locals: the poll thread (inside key(): the pressed
\* keys still to visit) and the Timer threads (inside zoom_repeat)
IdleMain == [pc |-> "poll", todo |-> << >>, zoom_pressed |-> FALSE, i |-> 0]
IdleCb == [pc |-> "none", todo |-> << >>, zoom_pressed |-> FALSE, i |-> 0]

Init ==
    /\ zoom_timer_on = FALSE
    /\ keys = {}
    /\ leds = {}
    /\ se_leds = {}
    /\ play_state = FALSE
    /\ zoom_mode = FALSE
    /\ scrub_mode = FALSE
    /\ jog_unsent = 0
    /\ jog_mode = "JOG"
    /\ se_jog_leds = JOG["JOG"]
    /\ modifiers = {}
    /\ midi_out = << >>
    /\ timers = 0
    /\ crashed = FALSE
    /\ calls = << >>
    /\ steps = 0
    /\ ev = [kind |-> "init"]
    /\ tick = 0
    /\ njog = 0
    /\ recv_units = 0
    /\ sent_steps = 0
    /\ sent_units = 0
    /\ main = IdleMain
    /\ cbs = [i \in 1..MaxCallbacks |-> IdleCb]
    /\ other_keys = {}

-----------------------------------------------------------------------------
(* Serialized execution: every handler runs to completion                  *)

Serial == main = IdleMain /\ \A i \in DOMAIN cbs : cbs[i] = IdleCb

\* se.poll() delivers the held-key snapshot keys_set to key()
Key(keys_set) ==
    /\ Serial /\ ~crashed
    /\ \E rs \in Orders(released(Entry, keys_set)), ps \in Orders(pressed(Entry, keys_set)) :
          Store(key(Entry, keys_set, rs, ps))
    /\ ev' = [kind |-> "key", keys |-> keys_set, prev |-> keys, prev_modifiers |-> modifiers]
    /\ tick' = 1 - tick
    /\ UNCHANGED << njog, recv_units, sent_steps, sent_units, main, cbs, other_keys >>

\* an outstanding timer fires and runs zoom_repeat
ZoomRepeat ==
    /\ Serial /\ timers > 0
    /\ Store(zoom_repeat([Entry EXCEPT !.timers = @ - 1]))
    /\ ev' = [kind |-> "timer", held |-> {ZOOM_KEYS[i] : i \in DOMAIN ZOOM_KEYS} \cap keys]
    /\ tick' = 1 - tick
    /\ UNCHANGED << njog, recv_units, sent_steps, sent_units, main, cbs, other_keys >>

\* midi_in.receive() returns msg
Receive(msg) ==
    /\ Serial
    /\ Store(receive_thread(Entry, msg))
    /\ ev' = [kind |-> "status", msg |-> msg, prev_leds |-> leds]
    /\ tick' = 1 - tick
    /\ UNCHANGED << njog, recv_units, sent_steps, sent_units, main, cbs, other_keys >>

\* the whole native units in a raw delta: the multiple of 360 below it, divided exactly
Units(value) == (value - (value % JOG_UNIT)) \div JOG_UNIT

\* se.poll() delivers the jog delta value to jog()
Jog(value) ==
    /\ Serial /\ ~crashed
    /\ LET w == jog(Entry, value)
       IN  /\ Store(w)
           /\ sent_steps' = sent_steps + w.steps
           /\ sent_units' = sent_units + w.steps * JOG_SPEED_DIV_FACTOR[jog_mode]
    /\ recv_units' = recv_units + Units(value)
    /\ njog' = njog + 1
    /\ ev' = [kind |-> "jog", value |-> value, prev_unsent |-> jog_unsent]
    /\ tick' = 1 - tick
    /\ UNCHANGED << main, cbs, other_keys >>

ZoomKeySet == {ZOOM_KEYS[i] : i \in DOMAIN ZOOM_KEYS}

InMsgs ==
    [type : {"note_on", "note_off"}, note : {MCU_PLAY, MCU_ZOOM, MCU_SCRUB, MCU_REC},
     velocity : {0, NOTE_VELOCITY}]

Next ==
    \/ \E ks \in SUBSET ZoomKeySet : Key(ks)
    \/ ZoomRepeat
    \/ \E m \in InMsgs : Receive(m)

Spec == Init /\ [][Next]_vars

\* the zoom repeat chain: zoom-group keys of both axes, the zoom status, and
\* a timer facility that fires every started timer
RepeatKeySet == {"IN", "OUT", "TRIM_OUT"}

RepeatMsgs == [type : {"note_on"}, note : {MCU_ZOOM}, velocity : {0, NOTE_VELOCITY}]

NextRepeat ==
    \/ \E ks \in SUBSET RepeatKeySet : Key(ks)
    \/ ZoomRepeat
    \/ \E m \in RepeatMsgs : Receive(m)

FairSpec == Init /\ [][NextRepeat]_vars /\ WF_vars(ZoomRepeat)

-----------------------------------------------------------------------------
(* Jog wheel: mode selectors, the NUDGE key and jog deltas                 *)

\* held-key snapshots: no key, one selector, two selectors pressed together
JogSnapshots == {{}, {"SHTL"}, {"JOG"}, {"SCRL"}, {"SHTL", "SCRL"}}

\* raw deltas: multiples of 360 of either sign, and deltas that are not
JogValues ==
    {u * JOG_UNIT : u \in {-20, -15, -8, -1, 0, 1, 7, 8, 15, 20}}
        \cup {-361, -359, -1, 359}

NextJog ==
    \/ \E ks \in JogSnapshots : Key(ks)
    \/ \E v \in JogValues : njog < MaxJogEvents /\ Jog(v)

SpecJog == Init /\ [][NextJog]_vars

\* the encoders: step counts beyond one control change (63) and beyond the
\* nudge ramp threshold (5), with and without the NUDGE key
EncSnapshots == {{}, {"SCRL"}, {"SHTL"}, {"ROLL"}, {"ROLL", "SHTL"}}

EncValues ==
    {u * JOG_UNIT : u \in {-130, -120, -64, -20, -1, 1, 20, 63, 64, 100, 120, 127, 130, 140}}

NextEnc ==
    \/ \E ks \in EncSnapshots : Key(ks)
    \/ \E v \in EncValues : njog < MaxJogEvents /\ Jog(v)

SpecEnc == Init /\ [][NextEnc]_vars

\* one mode chosen before the first jog event and kept, deltas that are
\* non-negative multiples of 360
FixedUnits == {0, 1, 7, 8, 15, 20, 33, 45}

NextJogFixed ==
    \/ \E ks \in {{}, {"SHTL"}, {"JOG"}, {"SCRL"}} : njog = 0 /\ Key(ks)
    \/ \E u \in FixedUnits : njog < MaxFixedEvents /\ Jog(u * JOG_UNIT)

SpecJogFixed == Init /\ [][NextJogFixed]_vars

\* keys, jog deltas, status messages and timer fires together
PanelSnapshots ==
    {{}, {"STOP_PLAY"}, {"ROLL"}, {"SHTL"}, {"SCRL"}, {"IN"},
     {"SHTL", "SCRL"}, {"STOP_PLAY", "IN"}, {"ROLL", "STOP_PLAY"}}

PanelValues == {-JOG_UNIT, 7 * JOG_UNIT}

PanelMsgs ==
    [type : {"note_on"}, note : {MCU_PLAY, MCU_ZOOM}, velocity : {0, NOTE_VELOCITY}]

NextPanel ==
    \/ \E ks \in PanelSnapshots : Key(ks)
    \/ \E v \in PanelValues : njog < MaxJogEvents /\ Jog(v)
    \/ ZoomRepeat
    \/ \E msg \in PanelMsgs : Receive(msg)

SpecPanel == Init /\ [][NextPanel]_vars

\* key() of a second MackieHandler instance: self.keys is its own field, the
\* modifier set is the class attribute both instances share
OtherKey(keys_set) ==
    /\ Serial /\ ~crashed
    /\ LET rs == other_keys \ keys_set
           ps == keys_set \ other_keys
           w1 == IF "ROLL" \in rs THEN modifier_released(Entry, "ROLL") ELSE Entry
           w2 == IF ~w1.crashed /\ "ROLL" \in ps THEN modifier_pressed(w1, "ROLL") ELSE w1
       IN  Store(w2)
    /\ other_keys' = keys_set
    /\ ev' = [kind |-> "other", keys |-> keys_set, prev |-> other_keys]
    /\ tick' = 1 - tick
    /\ UNCHANGED << njog, recv_units, sent_steps, sent_units, main, cbs >>

SharedKeySet == {"ROLL", "STOP_PLAY", "IN"}

NextShared ==
    \/ \E ks \in SUBSET SharedKeySet : Key(ks)
    \/ \E ks \in SUBSET {"ROLL"} : OtherKey(ks)
    \/ ZoomRepeat

SpecShared == Init /\ [][NextShared]_vars

-----------------------------------------------------------------------------
(* Threads: the poll thread, receive_thread and one thread per Timer run    *)
(* with no lock; a step is one access to a shared field.  midi_out holds    *)
(* what the step sent.                                                      *)

Hist == << ev, tick, njog, recv_units, sent_steps, sent_units, other_keys >>

\* the object as a step finds it (the call history is kept for whole handlers only)
Now == [Self EXCEPT !.midi_out = << >>, !.calls = << >>]

\* thread 0 is the poll thread, 1..MaxCallbacks run Timer callbacks
Loc(t) == IF t = 0 THEN main ELSE cbs[t]

SetLoc(t, l) ==
    IF t = 0 THEN main' = l /\ UNCHANGED cbs
    ELSE cbs' = [cbs EXCEPT ![t] = l] /\ UNCHANGED main

\* zoom_handle_keys returns: to the loop of key(), or the Timer thread ends
Returned(t) ==
    IF t = 0 THEN [IdleMain EXCEPT !.pc = "pressed", !.todo = Tail(main.todo)]
    ELSE IdleCb

\* key(), lines 149-159: the snapshot is stored and the released keys handled
\* (modifiers is touched by the poll thread alone)
CKey(keys_set) ==
    /\ main.pc = "poll" /\ ~crashed
    /\ \E rs \in Orders(released(Entry, keys_set)), ps \in Orders(pressed(Entry, keys_set)) :
          LET w == for_released([Entry EXCEPT !.keys = keys_set], rs)
          IN  /\ Store([w EXCEPT !.calls = << >>])
              /\ main' = [IdleMain EXCEPT !.pc = IF w.crashed THEN "poll" ELSE "pressed",
                                          !.todo = IF w.crashed THEN << >> ELSE ps]
    /\ UNCHANGED << cbs, Hist >>

\* key(), lines 161-162 and key_pressed up to line 193
CPressed ==
    /\ main.pc = "pressed"
    /\ IF main.todo = << >>
       THEN /\ Store(Now)
            /\ main' = IdleMain
       ELSE LET k == Head(main.todo)
            IN  /\ Store([key_pressed_dispatch(Now, k) EXCEPT !.calls = << >>])
                /\ main' = IF \E i \in DOMAIN ZOOM_KEYS : ZOOM_KEYS[i] = k
                           THEN [main EXCEPT !.pc = "l238", !.i = 1]
                           ELSE [main EXCEPT !.todo = Tail(@)]
    /\ UNCHANGED << cbs, Hist >>

\* line 238: any(k in self.keys for k in ZOOM_KEYS) reads self.keys once per key
Z238(t) ==
    /\ Loc(t).pc = "l238"
    /\ LET l == Loc(t)
       IN  IF ZOOM_KEYS[l.i] \in keys
           THEN SetLoc(t, [l EXCEPT !.zoom_pressed = TRUE, !.pc = "l223", !.i = 0])
           ELSE IF l.i < Len(ZOOM_KEYS)
                THEN SetLoc(t, [l EXCEPT !.i = @ + 1])
                ELSE SetLoc(t, [l EXCEPT !.zoom_pressed = FALSE, !.pc = "l241", !.i = 0])
    /\ Store(Now)
    /\ UNCHANGED Hist

\* lines 239, 223-224: set_zoom_mode reads zoom_mode
Z223(t) ==
    /\ Loc(t).pc = "l223"
    /\ Store(set_zoom_mode(Now))
    /\ SetLoc(t, [Loc(t) EXCEPT !.pc = "l241"])
    /\ UNCHANGED Hist

\* lines 241-249: one test of self.keys and its note; after the last, line 249
ZDir(t, pc, k, note, next) ==
    /\ Loc(t).pc = pc
    /\ Store(IF k \in keys THEN send_midi_note(Now, note) ELSE Now)
    /\ SetLoc(t, IF next = "l249"
                 THEN IF Loc(t).zoom_pressed THEN [Loc(t) EXCEPT !.pc = "l231"]
                      ELSE Returned(t)
                 ELSE [Loc(t) EXCEPT !.pc = next])
    /\ UNCHANGED Hist

Z241(t) ==
    \/ ZDir(t, "l241", "IN", MCU_RIGHT, "l243")
    \/ ZDir(t, "l243", "OUT", MCU_LEFT, "l245")
    \/ ZDir(t, "l245", "TRIM_IN", MCU_DOWN, "l247")
    \/ ZDir(t, "l247", "TRIM_OUT", MCU_UP, "l249")

\* line 231: the test of zoom_timer_on
Z231(t) ==
    /\ Loc(t).pc = "l231"
    /\ Store(Now)
    /\ SetLoc(t, IF ~zoom_timer_on THEN [Loc(t) EXCEPT !.pc = "l232"] ELSE Returned(t))
    /\ UNCHANGED Hist

\* line 232: the assignment
Z232(t) ==
    /\ Loc(t).pc = "l232"
    /\ Store([Now EXCEPT !.zoom_timer_on = TRUE])
    /\ SetLoc(t, [Loc(t) EXCEPT !.pc = "l234"])
    /\ UNCHANGED Hist

\* lines 233-234: the Timer is started
Z234(t) ==
    /\ Loc(t).pc = "l234"
    /\ timers < MaxTimers
    /\ Store([Now EXCEPT !.timers = @ + 1])
    /\ SetLoc(t, Returned(t))
    /\ UNCHANGED Hist

\* a Timer fires: its thread starts zoom_repeat
TimerFire ==
    /\ timers > 0
    /\ \E i \in DOMAIN cbs :
          /\ cbs[i].pc = "none"
          /\ \A j \in DOMAIN cbs : j < i => cbs[j].pc # "none"
          /\ cbs' = [cbs EXCEPT ![i] = [IdleCb EXCEPT !.pc = "l227"]]
    /\ Store([Now EXCEPT !.timers = @ - 1])
    /\ UNCHANGED << main, Hist >>

\* line 227
Z227(t) ==
    /\ t # 0
    /\ Loc(t).pc = "l227"
    /\ Store([Now EXCEPT !.zoom_timer_on = FALSE])
    /\ SetLoc(t, [Loc(t) EXCEPT !.pc = "l238", !.i = 1])
    /\ UNCHANGED Hist

\* one pass of receive_thread: one message, one shared field written
CReceive(msg) ==
    /\ Store(receive_thread(Now, msg))
    /\ UNCHANGED << main, cbs, Hist >>

ConcMsgs == [type : {"note_on"}, note : {MCU_ZOOM}, velocity : {0, NOTE_VELOCITY}]

\* the zoom keys pressed in the threaded specification
ConcKeySet == {"IN", "OUT"}

NextConc ==
    \/ \E ks \in SUBSET ConcKeySet : CKey(ks)
    \/ CPressed
    \/ TimerFire
    \/ \E m \in ConcMsgs : CReceive(m)
    \/ \E t \in 0..MaxCallbacks :
          Z227(t) \/ Z238(t) \/ Z223(t) \/ Z241(t) \/ Z231(t) \/ Z232(t) \/ Z234(t)

SpecConc == Init /\ [][NextConc]_vars

-----------------------------------------------------------------------------
(* Properties                                                              *)

Range(seq) == {seq[i] : i \in DOMAIN seq}

ZoomHeld == keys \cap ZoomKeySet # {}

\* the directional note of each zoom-group key
DirOf == [IN |-> MCU_RIGHT, OUT |-> MCU_LEFT, TRIM_IN |-> MCU_DOWN, TRIM_OUT |-> MCU_UP]

DirNotes == {NoteOn(DirOf[k]) : k \in ZoomKeySet}

\* C1: at every moment at most one zoom-repeat timer is started and not yet
\* fired, whatever the interleaving of the poll thread, receive_thread and the
\* timer callbacks, also between the test and the assignment of zoom_timer_on.
C1_AtMostOneTimer == timers <= 1

\* C2: a key-set update that presses a zoom-group key sends that key's
\* directional note during the update; a timer fire that finds a zoom-group
\* key held sends the note of every held key and leaves one timer armed; and
\* if a zoom-group key stays held for ever, timer fires that send directional
\* notes happen again and again.
C2_PressEmits ==
    ev.kind = "key" =>
        \A k \in (ev.keys \ ev.prev) \cap ZoomKeySet : NoteOn(DirOf[k]) \in Range(midi_out)

C2_FireRepeats ==
    (ev.kind = "timer" /\ ev.held # {}) =>
        /\ \A k \in ev.held : NoteOn(DirOf[k]) \in Range(midi_out)
        /\ zoom_timer_on /\ timers = 1

C2_ZoomRepeatNeverStalls ==
    /\ [](C2_PressEmits /\ C2_FireRepeats)
    /\ (<>[]ZoomHeld => []<><<ZoomRepeat /\ Range(midi_out') \cap DirNotes # {}>>_vars)

C2_Witness ==
    /\ ev.kind = "timer" /\ ev.held = {"IN", "TRIM_OUT"}
    /\ NoteOn(MCU_RIGHT) \in Range(midi_out) /\ NoteOn(MCU_UP) \in Range(midi_out)
    /\ timers = 1

\* C3: a timer fire that finds no zoom-group key held sends nothing and arms
\* no timer, leaving zoom_timer_on false and no timer outstanding; and if from
\* some moment on no zoom-group key is held, then from some moment on no timer
\* is outstanding and zoom_timer_on is false (so no timer fires any more).
C3_FireEnds ==
    (ev.kind = "timer" /\ ev.held = {}) =>
        midi_out = << >> /\ timers = 0 /\ ~zoom_timer_on

C3_ZoomRepeatTerminates ==
    /\ []C3_FireEnds
    /\ [][(timers = 0 /\ ~ZoomHeld') => timers' = 0]_vars
    /\ (<>[](~ZoomHeld) => <>[](timers = 0 /\ ~zoom_timer_on))

C3_Witness == ev.kind = "timer" /\ ev.held = {} /\ timers = 0 /\ ~zoom_timer_on

\* the native units the last jog event added to the accumulator, read off its
\* effect: remainder after, plus what was sent, minus remainder before
NativeAdded == jog_unsent + steps * JOG_SPEED_DIV_FACTOR[jog_mode] - ev.prev_unsent

\* division truncating toward zero
TruncDiv(a, b) == IF a >= 0 THEN a \div b ELSE -((-a) \div b)

\* C4: from remainder 0 and in one fixed mode of factor f, after every jog
\* event of a sequence of non-negative multiples of 360 the steps sent so far
\* are floor(N / f) and the remainder is N mod f, N the native units so far.
C4_FixedModeAccumulation ==
    LET f == JOG_SPEED_DIV_FACTOR[jog_mode]
    IN  /\ sent_steps = recv_units \div f
        /\ jog_unsent = recv_units % f
        /\ (ev.kind = "jog" /\ jog_mode # "SHTL" /\ steps = 1) => Len(midi_out) = 1
        /\ (ev.kind = "jog" /\ steps = 0) => midi_out = << >>

\* the example of the specification: JOG mode, 15 then 7 then 8 native units
C4_Witness ==
    /\ jog_mode = "JOG" /\ njog = 3 /\ recv_units = 30
    /\ ev.kind = "jog" /\ ev.value = 8 * JOG_UNIT /\ ev.prev_unsent = 7
    /\ steps = 1 /\ sent_steps = 2 /\ jog_unsent = 0

\* C5: after any sequence of jog events of either sign and mode switches, the
\* steps sent, each weighted by the factor of the mode it was sent in, plus
\* the remainder equal the native units received.
C5_NoRotationLost == sent_units + jog_unsent = recv_units

\* negative steps were sent in one mode, the remainder grew in another
C5_Witness ==
    /\ njog = 2 /\ jog_mode = "SHTL" /\ sent_units = -15 /\ jog_unsent > 0
    /\ ev.kind = "jog"

\* C6: right after every jog event the magnitude of the remainder is below
\* the factor of the active mode, also when the mode was switched before it.
C6_RemainderBelowFactor ==
    ev.kind = "jog" => Abs(jog_unsent) < JOG_SPEED_DIV_FACTOR[jog_mode]

\* a jog event that found a remainder not below the factor of the new mode
C6_Witness ==
    /\ ev.kind = "jog" /\ ev.value = 0
    /\ ev.prev_unsent >= JOG_SPEED_DIV_FACTOR[jog_mode]

\* C7 as stated: the raw delta is divided by 360 truncating toward zero, so a
\* delta d with -360 < d < 0 adds no native unit and leaves the remainder.
C7_TruncatesTowardZero ==
    ev.kind = "jog" =>
        /\ NativeAdded = TruncDiv(ev.value, JOG_UNIT)
        /\ (-JOG_UNIT < ev.value /\ ev.value < 0) => jog_unsent = ev.prev_unsent

\* C7 amended: the raw delta is divided by 360 rounding toward minus infinity:
\* the native units n added satisfy 360 n <= d < 360 (n + 1); this is the
\* truncated quotient for d >= 0 and for multiples of 360.
C7_FloorsTowardMinusInfinity ==
    ev.kind = "jog" =>
        /\ NativeAdded * JOG_UNIT <= ev.value
        /\ ev.value < (NativeAdded + 1) * JOG_UNIT
        /\ (ev.value >= 0 \/ ev.value % JOG_UNIT = 0)
               => NativeAdded = TruncDiv(ev.value, JOG_UNIT)

\* a delta of -1 sub-unit counts as one native unit backwards
C7_Witness == ev.kind = "jog" /\ ev.value = -1 /\ NativeAdded = -1

RECURSIVE SumSeq(_)
SumSeq(q) == IF q = << >> THEN 0 ELSE Head(q) + SumSeq(Tail(q))

\* bits 0-5 and bit 6 of a control change value
Magnitude(val) == val % 64

SignBit(val) == (val \div 64) % 2

\* C8: a jog event outside SHUTTLE mode with a step count s # 0 sends only
\* control changes on the jog control number: ceil(|s| / 63) of them, each of
\* magnitude 1..63, all 63 but possibly the last, the magnitudes adding up to
\* |s|, bit 6 set exactly when s < 0, every value within 0..127.
C8_JogControlChangeChunks ==
    (ev.kind = "jog" /\ jog_mode # "SHTL" /\ steps # 0) =>
        LET n == Len(midi_out)
        IN  /\ n = (Abs(steps) + 62) \div 63
            /\ \A i \in 1..n :
                  /\ midi_out[i].type = "control_change"
                  /\ midi_out[i].control = MCU_JOG_CC
                  /\ midi_out[i].value \in 0..127
                  /\ Magnitude(midi_out[i].value) \in 1..63
                  /\ i < n => Magnitude(midi_out[i].value) = 63
                  /\ SignBit(midi_out[i].value) = 1 <=> steps < 0
            /\ SumSeq([i \in 1..n |-> Magnitude(midi_out[i].value)]) = Abs(steps)

\* the example of the specification: 130 steps in SCROLL mode
C8_Witness ==
    /\ ev.kind = "jog" /\ jog_mode = "SCRL" /\ steps = 130
    /\ [i \in 1..Len(midi_out) |-> midi_out[i].value] = <<63, 63, 4>>

\* C9: a jog event in SHUTTLE mode with a step count s # 0 sends only notes:
\* |s| of them when |s| <= 5 and 5 + (|s| - 5) * 5 otherwise, all of one code,
\* USER_A (s < 0) or USER_B (s > 0) with the NUDGE modifier active, F1 (s < 0)
\* or F2 (s > 0) without it.
C9_NudgeBurst ==
    (ev.kind = "jog" /\ jog_mode = "SHTL" /\ steps # 0) =>
        LET r == IF Abs(steps) <= 5 THEN Abs(steps) ELSE 5 + (Abs(steps) - 5) * 5
            code == IF "NUDGE" \in modifiers
                    THEN IF steps < 0 THEN MCU_USER_A ELSE MCU_USER_B
                    ELSE IF steps < 0 THEN MCU_F1 ELSE MCU_F2
        IN  /\ Len(midi_out) = r
            /\ \A i \in 1..Len(midi_out) :
                  midi_out[i].type = "note_on" /\ midi_out[i].note = code

\* six steps backwards with ROLL held: ten USER_A notes
C9_Witness ==
    /\ ev.kind = "jog" /\ jog_mode = "SHTL" /\ "NUDGE" \in modifiers
    /\ steps = -6 /\ Len(midi_out) = 10 /\ midi_out[10].note = MCU_USER_A

\* the keys key() handled in the last update, by kind of edge
Handled(edge) == {calls[i][2] : i \in {j \in DOMAIN calls : calls[j][1] = edge}}

\* C10: every key-set update handles as released exactly the keys of the
\* previous snapshot missing from the new one and as pressed exactly the keys
\* of the new snapshot missing from the previous one, each once, and stores
\* the new snapshot; keys in both or in neither snapshot are not handled.
C10_EdgeTracking ==
    ev.kind = "key" =>
        LET gone == {k \in ev.prev : k \notin ev.keys}
            come == {k \in ev.keys : k \notin ev.prev}
        IN  /\ Handled("released") = gone
            /\ Handled("pressed") = come
            /\ Len(calls) = Cardinality(gone) + Cardinality(come)
            /\ keys = ev.keys

\* one key stays held, one is released, one is pressed, one stays up
C10_Witness ==
    /\ ev.kind = "key" /\ ev.prev = {"IN", "OUT"} /\ ev.keys = {"OUT", "TRIM_IN"}
    /\ Len(calls) = 2

\* the last event was an inbound note_on for the status code note
StatusFor(note) == ev.kind = "status" /\ ev.msg.type = "note_on" /\ ev.msg.note = note

\* C11: after an inbound transport-play status message every led of the camera
\* group is on in led_mask if the message was active (velocity > 0) and off if
\* it was not, every other led of the mask is as before, and the mask last
\* written to the device is led_mask.
C11_PlayStatusMirrored ==
    StatusFor(MCU_PLAY) =>
        /\ ev.msg.velocity > 0 => CAM_LEDS \subseteq leds
        /\ ev.msg.velocity = 0 => leds \cap CAM_LEDS = {}
        /\ leds \ CAM_LEDS = ev.prev_leds \ CAM_LEDS
        /\ se_leds = leds

\* play goes inactive after it was active
C11_Witness ==
    /\ StatusFor(MCU_PLAY) /\ ev.msg.velocity = 0
    /\ ev.prev_leds = CAM_LEDS /\ leds = {} /\ se_leds = {}

\* the number of messages of seq that are in the set S
Count(seq, S) == Cardinality({i \in DOMAIN seq : seq[i] \in S})

\* the keys the last key-set update pressed, and those it released
PressEdges == IF ev.kind = "key" THEN ev.keys \ ev.prev ELSE {}
ReleaseEdges == IF ev.kind = "key" THEN ev.prev \ ev.keys ELSE {}

\* C12: every press edge of STOP_PLAY emits exactly one button message, PLAY
\* when play_active is false and STOP when it is true, and play_active is
\* changed only by an inbound transport-play status message.
C12_StopPlayDispatch ==
    /\ []("STOP_PLAY" \in PressEdges =>
            /\ Count(midi_out, {NoteOn(MCU_PLAY), NoteOn(MCU_STOP)}) = 1
            /\ NoteOn(IF play_state THEN MCU_STOP ELSE MCU_PLAY) \in Range(midi_out)
            /\ PressEdges \subseteq {"STOP_PLAY", "ROLL"} => Len(midi_out) = 1)
    /\ [][play_state' # play_state =>
             ev'.kind = "status" /\ ev'.msg.note = MCU_PLAY]_vars

\* STOP_PLAY is pressed while play is active
C12_Witness ==
    /\ PressEdges = {"STOP_PLAY"} /\ play_state
    /\ midi_out = << NoteOn(MCU_STOP) >>

\* C13: the jog mode is always one of SHTL, JOG, SCRL and is JOG at startup; it
\* changes only in a key-set update that presses a jog-mode selector key, to
\* the mode of a selector that update pressed, never on a release edge, a jog
\* event, a status message or a timer fire; and a key-set update, mode switch
\* included, leaves jog_remainder as it was.
C13_JogModeStable ==
    /\ jog_mode = "JOG"
    /\ [](jog_mode \in DOMAIN JOG)
    /\ [][jog_mode' # jog_mode =>
             /\ ev'.kind = "key"
             /\ jog_mode' \in (ev'.keys \ ev'.prev) \cap DOMAIN JOG]_vars
    /\ [][ev'.kind # "jog" => jog_unsent' = jog_unsent]_vars

\* a switch to SHTL while a remainder of 7 native units is pending
C13_Witness ==
    /\ "SHTL" \in PressEdges /\ jog_mode = "SHTL" /\ jog_unsent = 7

\* C14: in a single instance started with an empty modifier set, NUDGE is in the
\* modifier set exactly when ROLL is held, after every key-set update and in
\* between, and only a key-set update changes the modifier set.
C14_NudgeIffRollHeld ==
    /\ [](("NUDGE" \in modifiers) <=> ("ROLL" \in keys))
    /\ [][modifiers' # modifiers => ev'.kind = "key"]_vars

\* ROLL was held with NUDGE active and is released
C14_Witness ==
    /\ "ROLL" \in ReleaseEdges /\ "NUDGE" \in ev.prev_modifiers
    /\ "NUDGE" \notin modifiers /\ ~crashed

\* C15: handling a release edge of ROLL in a state where NUDGE is not in the
\* modifier set is a no-op: no error is raised and the modifier set is as before.
C15_AbsentReleaseIsNoOp ==
    ("ROLL" \in ReleaseEdges /\ "NUDGE" \notin ev.prev_modifiers) =>
        ~crashed /\ modifiers = ev.prev_modifiers

\* C16: an inbound note_off for one of the three status codes has the effect of
\* a note_on with velocity 0: the flag of the code is false afterwards, and for
\* the play code the camera leds are off in the mask and on the device.
C16_NoteOffDeactivates ==
    (ev.kind = "status" /\ ev.msg.type = "note_off") =>
        /\ ev.msg.note = MCU_PLAY =>
              ~play_state /\ leds \cap CAM_LEDS = {} /\ se_leds = leds
        /\ ev.msg.note = MCU_ZOOM => ~zoom_mode
        /\ ev.msg.note = MCU_SCRUB => ~scrub_mode

\* the runs of zoom_handle_keys the last event made: one per pressed zoom-group
\* key of a key-set update, one per timer fire
Invocations ==
    IF ev.kind = "key" THEN Cardinality(PressEdges \cap ZoomKeySet)
    ELSE IF ev.kind = "timer" THEN 1 ELSE 0

HeldCount == Cardinality(keys \cap ZoomKeySet)

\* the positions of the zoom-toggle messages the last event sent
Toggles == {i \in DOMAIN midi_out : midi_out[i] = NoteOn(MCU_ZOOM)}

\* C17: a zoom-toggle message is sent by a run of the zoom handler (press edge of
\* a zoom-group key, or timer fire) only if a zoom-group key is held and
\* zoom_active is false, at most once per run and before the directional
\* messages of that run; none is sent while zoom_active is true; and zoom_active
\* is changed only by an inbound zoom status message.
C17_ZoomToggleGated ==
    /\ [](/\ Toggles # {} => ZoomHeld /\ ~zoom_mode /\ ev.kind \in {"key", "timer"}
          /\ Cardinality(Toggles) <= Invocations
          /\ \A i \in Toggles :
                /\ (i - 1) % (HeldCount + 1) = 0
                /\ \A j \in 1..HeldCount :
                      i + j \in DOMAIN midi_out /\ midi_out[i + j] \in DirNotes
          /\ zoom_mode => Toggles = {})
    /\ [][zoom_mode' # zoom_mode =>
             ev'.kind = "status" /\ ev'.msg.note = MCU_ZOOM]_vars

\* two zoom keys pressed in one update while zoom is inactive: two runs, each
\* opening with its toggle
C17_Witness ==
    /\ ev.kind = "key" /\ Invocations = 2 /\ HeldCount = 2 /\ ~zoom_mode
    /\ Toggles = {1, 4} /\ Len(midi_out) = 6

\* C18: a key-set update that presses n zoom-group keys while m zoom-group keys
\* are held in the new snapshot sends n * m directional messages, the direction
\* of each held key n times (IN RIGHT, OUT LEFT, TRIM_IN DOWN, TRIM_OUT UP); an
\* update without a zoom-group press edge sends none.
C18_DirectionalPerPress ==
    ev.kind = "key" =>
        /\ \A k \in ZoomKeySet :
              Count(midi_out, {NoteOn(DirOf[k])}) = IF k \in keys THEN Invocations ELSE 0
        /\ Count(midi_out, DirNotes) = Invocations * HeldCount

\* IN and OUT pressed while TRIM_IN stays held: 2 * 3 directional messages
C18_Witness ==
    /\ ev.kind = "key" /\ PressEdges = {"IN", "OUT"} /\ keys = {"IN", "OUT", "TRIM_IN"}
    /\ Count(midi_out, DirNotes) = 6
    /\ Count(midi_out, {NoteOn(MCU_RIGHT)}) = 2

\* C19: with every handler run to completion, zoom_timer_on is true exactly
\* where one timer is outstanding and false exactly where none is, and a timer
\* is outstanding whenever a zoom-group key is held.
C19_FlagMirrorsTimer ==
    /\ timers \in {0, 1}
    /\ zoom_timer_on <=> timers = 1
    /\ ~zoom_timer_on <=> timers = 0
    /\ ZoomHeld => timers = 1

\* the timer fired with a key still held and was started again
C19_Witness ==
    /\ ev.kind = "timer" /\ ZoomHeld /\ zoom_timer_on /\ timers = 1

\* C20: after every jog event 0 <= jog_remainder < factor of the active mode,
\* for deltas of either sign; the event sends no message exactly when the
\* previous remainder plus the native units received already lies in that
\* range; and from remainder 0 a delta of one native unit backwards sends a
\* step of -1 and leaves the remainder at factor - 1.
C20_RemainderInRange ==
    ev.kind = "jog" =>
        LET factor == JOG_SPEED_DIV_FACTOR[jog_mode]
            total == ev.prev_unsent + Units(ev.value)
        IN  /\ 0 <= jog_unsent /\ jog_unsent < factor
            /\ midi_out = << >> <=> (0 <= total /\ total < factor)
            /\ (ev.prev_unsent = 0 /\ ev.value = -JOG_UNIT) =>
                  steps = -1 /\ jog_unsent = factor - 1

\* one native unit backwards from remainder 0 in SHTL mode
C20_Witness ==
    /\ ev.kind = "jog" /\ ev.prev_unsent = 0 /\ ev.value = -JOG_UNIT
    /\ jog_mode = "SHTL" /\ steps = -1 /\ jog_unsent = 19 /\ midi_out # << >>

====
